---- MODULE Spec2Model ----
(***************************************************************************)
(* Model of the reminder run of notification.js (the current variant,      *)
(* src/notification.js lines 137-344): checkAndNotifyTasks scans the       *)
(* users, loads each user's task list and delivery tokens, evaluates each  *)
(* task against the 15-minute reminder window, dispatches pushes through   *)
(* sendNotification and writes the task list back.                         *)
(*                                                                         *)
(* Time is in seconds.  A value that JavaScript may leave undefined is an  *)
(* option: <<>> when absent, <<v>> when present.                           *)
(***************************************************************************)
EXTENDS Integers, Sequences, FiniteSets, TLC

\* ------------------------------------------------------------------ bounds
NumUsers == 2
MaxRuns == 2

\* ------------------------------------------------------- program constants
rt == 15
StaleCutoff == 1440

Users == 1..NumUsers
Runs == 1..MaxRuns

\* Two due dates (seconds): D2 is D1 moved 30 minutes later.
D1 == 3000 * 60
D2 == D1 + 30 * 60

\* The instants a run may start at, named by the minutes left to D1 there.
Instants ==
  { D1 - 16 * 60,            \* 16 minutes left: before the window
    D1 - (15 * 60 + 59),     \* 15 min 59 s left: minsLeft = 15
    D1 - 59,                 \* 59 s left: minsLeft = 0
    D1 + 20 * 60,            \* 20 minutes overdue (10 minutes before D2)
    D1 + (1440 * 60 + 59),   \* 1440 min 59 s overdue: minsLeft = -1440
    D1 + 1441 * 60 }         \* 1441 minutes overdue

VARIABLES
  clock,        \* wall-clock time (seconds)
  tasksDoc,     \* /tasks/{uid}: the primary aggregate document of each user
  userTasks,    \* /users/{uid}/tasks: the secondary per-task collection
  devices,      \* /users/{uid}/devices: each device document's token field
  pc,           \* each run's position in checkAndNotifyTasks
  now,          \* each run's `now`
  userIdx,      \* each run's position in usersSnap.docs
  tasks,        \* each run's local `tasks` array
  tokens,       \* each run's local `tokens` array
  taskIdx,      \* each run's position in `for (const task of tasks)`
  tokenIdx,     \* each run's position in `for (const token of tokens)`
  pending,      \* the intent whose dispatch loop the run is in ("none" outside)
  totalReminders, \* each run's totalReminders counter
  intents,      \* history: every notification intent decided
  calls,        \* history: every fcm.send call made
  evals,        \* history: every completed evaluation of a task
  fresh         \* history: the tasks whose stored record was unhandled at the start

vars == << clock, tasksDoc, userTasks, devices, pc, now, userIdx, tasks, tokens,
           taskIdx, tokenIdx, pending, totalReminders, intents, calls, evals, fresh >>

store == << tasksDoc, userTasks, devices >>
locals == << now, userIdx, tasks, tokens, taskIdx, tokenIdx, pending, totalReminders >>
history == << intents, calls, evals >>

\* ------------------------------------------------------------- data shapes
\* The value stored under reminders["15min"].
\*   kind "undefined": the key is absent;  "true"/"false": the older boolean
\*   shape;  "object": { status, at }  (status "none" when the object has none).
NoRecord == [kind |-> "undefined", status |-> "none", at |-> 0]
BoolRecord(b) == [kind |-> IF b THEN "true" ELSE "false", status |-> "none", at |-> 0]
Record(s, t) == [kind |-> "object", status |-> s, at |-> t]

\* task.reminders: undefined, or a mapping whose only modelled key is 15min.
NoReminders == [defined |-> FALSE, r15 |-> NoRecord]
Reminders(v) == [defined |-> TRUE, r15 |-> v]

Task(i, due, done, rem) ==
  [id |-> i, text |-> "t", dueDate |-> due, completed |-> done, reminders |-> rem]

\* /tasks/{uid}: absent, or a document with (maybe) a list array and a sibling field.
NoDoc == [exists |-> FALSE, hasList |-> FALSE, list |-> <<>>, meta |-> <<>>]
Doc(l, m) == [exists |-> TRUE, hasList |-> TRUE, list |-> l, meta |-> m]

\* sequence helpers
Range(s) == { s[i] : i \in 1..Len(s) }
Includes(s, x) == x \in Range(s)

\* ------------------------------------------------------- Reminder Engine
\* date-fns differenceInMinutes(later, earlier): whole minutes, truncated toward 0.
differenceInMinutes(later, earlier) ==
  LET d == later - earlier
  IN  IF d >= 0 THEN d \div 60 ELSE -((-d) \div 60)

MinsLeft(task, nw) == differenceInMinutes(task.dueDate[1], nw)

\* if (!task.dueDate) continue;
NoDueDate(task) == task.dueDate = <<>>

\* Mutant: the completed check before the window test is missing.
SkipCompletedNever(task) == FALSE

\* if (task.completed) continue;
SkipCompleted(task) == task.completed

\* Mutant: the record is read as the older boolean shape only.
prevStatusBoolean(prev) == IF prev.kind = "true" THEN "sent" ELSE "none"

\* typeof prev === "object" ? prev.status : (prev ? "sent" : null)
prevStatus(prev) ==
  IF prev.kind = "object" THEN prev.status
  ELSE IF prev.kind = "true" THEN "sent" ELSE "none"

\* Mutant: a sent record is not taken as handled.
AlreadyHandledNotSent(status) == status \in {"missed", "skipped-completed"}

\* ["sent", "missed", "skipped-completed"].includes(prevStatus)
AlreadyHandled(status) == status \in {"sent", "missed", "skipped-completed"}

\* Mutant: any truthy stored value counts as handled, as in the earlier variants.
HandledTruthy(task) ==
  task.reminders.defined /\ task.reminders.r15.kind \in {"true", "object"}

Handled(task) == task.reminders.defined /\ AlreadyHandled(prevStatus(task.reminders.r15))

\* Mutant: the cutoff takes the boundary too.
TooOldInclusive(minsLeft) == minsLeft <= -StaleCutoff

\* if (minsLeft < -1440) continue;
TooOld(minsLeft) == minsLeft < -StaleCutoff

\* Mutant: the window is closed at its lower end.
InDueSoonWindowClosed(minsLeft) == minsLeft <= rt /\ minsLeft >= rt - 15

\* if (minsLeft <= rt && minsLeft > rt - 15)
InDueSoonWindow(minsLeft) == minsLeft <= rt /\ minsLeft > rt - 15

\* else if (minsLeft <= rt - 15)
InMissedRange(minsLeft) == minsLeft <= rt - 15

\* The branch one task takes in the body of `for (const task of tasks)`.
Decide(task, nw) ==
  IF NoDueDate(task) THEN "no-due"
  ELSE IF SkipCompleted(task) THEN "completed"
  ELSE IF Handled(task) THEN "handled"
  ELSE LET minsLeft == MinsLeft(task, nw)
       IN  IF TooOld(minsLeft) THEN "stale"
           ELSE IF InDueSoonWindow(minsLeft) THEN "due-soon"
           ELSE IF InMissedRange(minsLeft)
                THEN (IF task.completed THEN "skipped-completed" ELSE "missed")
           ELSE "not-yet"

\* if (!task.reminders) task.reminders = {};   (reached past the two early skips)
EnsureReminders(task) ==
  IF task.reminders.defined THEN task
  ELSE [task EXCEPT !.reminders = Reminders(NoRecord)]

\* task.reminders[reminderKey] = { status, at: new Date().toISOString() }
Mark(task, status, at) == [task EXCEPT !.reminders = Reminders(Record(status, at))]

\* The record status written for an intent.
StatusFor(intent) == IF intent = "due-soon" THEN "sent" ELSE "missed"

\* ----------------------------------------------------- Task Source Adapter
\* userTasksSnap.docs.map(doc => ({ id: doc.id, ...doc.data() }))
FromDoc(doc) ==
  IF doc.data.id = <<>> THEN [doc.data EXCEPT !.id = <<doc.id>>] ELSE doc.data

\* Mutant: an existing list array is taken even when it is empty.
loadTasksNoFallbackOnEmpty(u) ==
  IF tasksDoc[u].exists /\ tasksDoc[u].hasList THEN tasksDoc[u].list
  ELSE [i \in 1..Len(userTasks[u]) |-> FromDoc(userTasks[u][i])]

\* The `tasks` array after the primary read and the fallback.
loadTasks(u) ==
  LET primary == IF tasksDoc[u].exists /\ tasksDoc[u].hasList
                 THEN tasksDoc[u].list ELSE <<>>
  IN  IF Len(primary) # 0 THEN primary
      ELSE [i \in 1..Len(userTasks[u]) |-> FromDoc(userTasks[u][i])]

\* Mutant: a token already collected is collected again.
RECURSIVE collectTokensNoDedup(_, _)
collectTokensNoDedup(devs, acc) ==
  IF devs = <<>> THEN acc
  ELSE collectTokensNoDedup(Tail(devs),
         IF Head(devs) # "" THEN Append(acc, Head(devs)) ELSE acc)

\* devicesSnap.forEach: keep each non-empty token once, in document order.
RECURSIVE collectTokens(_, _)
collectTokens(devs, acc) ==
  IF devs = <<>> THEN acc
  ELSE collectTokens(Tail(devs),
         IF Head(devs) # "" /\ ~Includes(acc, Head(devs))
         THEN Append(acc, Head(devs)) ELSE acc)

loadTokens(u) == collectTokens(devices[u], <<>>)

\* ------------------------------------------------- Notification Dispatcher
\* Mutant: no try/catch around fcm.send, a rejection is raised to the caller.
sendNotificationRaising(accepted) == [delivered |-> accepted, threw |-> ~accepted]

\* sendNotification: fcm.send inside try/catch; a rejection is logged, not raised.
sendNotification(accepted) == [delivered |-> accepted, threw |-> FALSE]

\* db.collection("tasks").doc(userId).set({ list: tasks }, { merge: true })
\* Mutant: the document is replaced by { list } instead of merged into.
MergeListReplace(doc, l) == [exists |-> TRUE, hasList |-> TRUE, list |-> l, meta |-> <<>>]

MergeList(doc, l) ==
  [exists |-> TRUE, hasList |-> TRUE, list |-> l,
   meta |-> IF doc.exists THEN doc.meta ELSE <<>>]

\* ---------------------------------------------------------- initial store
\* A task as the client stores it: no reminder bookkeeping yet.
PendingTask(i) == Task(<<i>>, <<D1>>, FALSE, NoReminders)

\* The reminder bookkeeping a stored task with a due date may carry.
InitReminders ==
  { NoReminders, Reminders(NoRecord), Reminders(BoolRecord(TRUE)) }
  \cup { Reminders(Record(s, D1 - 3000)) : s \in {"sent", "missed", "skipped-completed"} }

InitTasks(i) ==
  { Task(<<i>>, <<>>, FALSE, NoReminders) }
  \cup { Task(<<i>>, <<D1>>, done, rem) : done \in BOOLEAN, rem \in InitReminders }

\* One user's list ranges over these; the other users hold one pending task.
InitLists ==
  { <<>> } \cup { <<t>> : t \in InitTasks(1) }
           \cup { <<t, PendingTask(2)>> : t \in InitTasks(1) }

InitDevices == { <<>>, <<"tA", "", "tA">>, <<"tA", "tB">> }

\* A list held per task under /users/{uid}/tasks: the id is the document's name.
AsDocs(l) == [i \in 1..Len(l) |-> [id |-> l[i].id[1], data |-> [l[i] EXCEPT !.id = <<>>]]]

Fresh(l) == { i \in 1..Len(l) : ~Handled(l[i]) }

\* The state before the first run, one user's list drawn from `lists`.
InitWith(lists) ==
  /\ clock = D1 - 16 * 60
  /\ \E v \in Users, l \in lists, primary \in BOOLEAN, d \in InitDevices :
       /\ tasksDoc = [u \in Users |->
            IF u # v THEN Doc(<<PendingTask(1)>>, <<"m">>)
            ELSE IF primary THEN Doc(l, <<"m">>) ELSE NoDoc]
       /\ userTasks = [u \in Users |-> IF u = v /\ ~primary THEN AsDocs(l) ELSE <<>>]
       /\ devices = [u \in Users |-> IF u = v THEN d ELSE <<"tA">>]
       /\ fresh = { <<u, i>> \in Users \X {1, 2} :
                      i \in Fresh(IF u = v THEN l ELSE <<PendingTask(1)>>) }
  /\ pc = [r \in Runs |-> "idle"]
  /\ now = [r \in Runs |-> 0]
  /\ userIdx = [r \in Runs |-> 0]
  /\ tasks = [r \in Runs |-> <<>>]
  /\ tokens = [r \in Runs |-> <<>>]
  /\ taskIdx = [r \in Runs |-> 0]
  /\ tokenIdx = [r \in Runs |-> 0]
  /\ pending = [r \in Runs |-> "none"]
  /\ totalReminders = [r \in Runs |-> 0]
  /\ intents = {}
  /\ calls = {}
  /\ evals = {}

Init == InitWith(InitLists)

\* ------------------------------------------------- checkAndNotifyTasks
\* No other run is between its start and its end.
Sequential(r) == \A q \in Runs \ {r} : pc[q] \in {"idle", "done"}

\* usersSnap = await db.collection("users").get(); now = new Date(); totalReminders = 0
\* (usersSnap.docs is Users, never empty here, so the early return is not taken).
\* Runs start in the order of their numbers, at a time not before the clock.
StartRun(r, t) ==
  /\ pc[r] = "idle"
  /\ \A q \in Runs : q < r => pc[q] # "idle"
  /\ t >= clock
  /\ clock' = t
  /\ now' = [now EXCEPT ![r] = t]
  /\ userIdx' = [userIdx EXCEPT ![r] = 1]
  /\ pc' = [pc EXCEPT ![r] = "user"]
  /\ UNCHANGED << store, tasks, tokens, taskIdx, tokenIdx, pending, totalReminders,
                  history, fresh >>

\* The run leaves through catch (err): nothing further is done.
Abort(r) ==
  /\ pc' = [pc EXCEPT ![r] = "done"]
  /\ tasks' = [tasks EXCEPT ![r] = <<>>]
  /\ tokens' = [tokens EXCEPT ![r] = <<>>]
  /\ taskIdx' = [taskIdx EXCEPT ![r] = 0]
  /\ tokenIdx' = [tokenIdx EXCEPT ![r] = 0]
  /\ pending' = [pending EXCEPT ![r] = "none"]

\* Mutant: only a user without tokens is skipped.
SkipUserOnlyWithoutTokens(l, k) == Len(k) = 0

\* if (tasks.length === 0) continue;  if (tokens.length === 0) continue;
SkipUser(l, k) == Len(l) = 0 \/ Len(k) = 0

\* One user's reads: /tasks/{uid}, the fallback collection, the devices.
\* The three reads are one step: only /tasks/{uid} is ever written by a run, and
\* it is read first.  `ok` is whether the store answers; a raised read leaves
\* through the outer catch.
LoadUser(r, ok) ==
  /\ pc[r] = "user"
  /\ userIdx[r] <= NumUsers
  /\ IF ~ok
     THEN Abort(r) /\ UNCHANGED userIdx
     ELSE LET u == userIdx[r]
              l == loadTasks(u)
              k == loadTokens(u)
          IN  IF SkipUser(l, k)
              THEN /\ userIdx' = [userIdx EXCEPT ![r] = u + 1]
                   /\ UNCHANGED << pc, tasks, tokens, taskIdx, tokenIdx, pending >>
              ELSE /\ tasks' = [tasks EXCEPT ![r] = l]
                   /\ tokens' = [tokens EXCEPT ![r] = k]
                   /\ taskIdx' = [taskIdx EXCEPT ![r] = 1]
                   /\ pc' = [pc EXCEPT ![r] = "eval"]
                   /\ UNCHANGED << userIdx, tokenIdx, pending >>
  /\ UNCHANGED << clock, store, now, totalReminders, history, fresh >>

Eval(r, i, before, after, intent) ==
  [run |-> r, uid |-> userIdx[r], idx |-> i, now |-> now[r],
   before |-> before, after |-> after, intent |-> intent]

\* The body of `for (const task of tasks)` up to its first await or its end.
EvalTask(r) ==
  /\ pc[r] = "eval"
  /\ taskIdx[r] <= Len(tasks[r])
  /\ LET i == taskIdx[r]
         task == tasks[r][i]
         d == Decide(task, now[r])
         ensured == IF d \in {"no-due", "completed"} THEN task ELSE EnsureReminders(task)
     IN  IF d \in {"due-soon", "missed"}
         THEN /\ tasks' = [tasks EXCEPT ![r][i] = ensured]
              /\ pending' = [pending EXCEPT ![r] = d]
              /\ tokenIdx' = [tokenIdx EXCEPT ![r] = 1]
              /\ pc' = [pc EXCEPT ![r] = "send"]
              /\ intents' = intents \cup
                   { [run |-> r, uid |-> userIdx[r], idx |-> i, kind |-> d,
                      task |-> task] }
              /\ UNCHANGED << taskIdx, evals >>
         ELSE LET after == IF d = "skipped-completed"
                           THEN Mark(ensured, "skipped-completed", clock)
                           ELSE ensured
              IN  /\ tasks' = [tasks EXCEPT ![r][i] = after]
                  /\ taskIdx' = [taskIdx EXCEPT ![r] = i + 1]
                  /\ evals' = evals \cup { Eval(r, i, task, after, "none") }
                  /\ UNCHANGED << pending, tokenIdx, pc, intents >>
  /\ UNCHANGED << clock, store, now, userIdx, tokens, totalReminders, calls, fresh >>

\* Mutant: the dispatch loop is left after its first token.
LastTokenAlways(r) == TRUE

\* for (const token of tokens): whether the run is at the last token.
LastToken(r) == tokenIdx[r] >= Len(tokens[r])

\* await sendNotification(token, ...); totalReminders++;  and, past the last
\* token, the record of the task.  `accepted` is the gateway's answer.
Send(r, accepted) ==
  /\ pc[r] = "send"
  /\ LET i == taskIdx[r]
         k == tokenIdx[r]
         task == tasks[r][i]
         res == sendNotification(accepted)
     IN  /\ calls' = calls \cup
              { [run |-> r, uid |-> userIdx[r], idx |-> i, kind |-> pending[r],
                 token |-> tokens[r][k], slot |-> k, delivered |-> res.delivered] }
         /\ IF res.threw
            THEN Abort(r) /\ UNCHANGED << totalReminders, evals >>
            ELSE /\ totalReminders' = [totalReminders EXCEPT ![r] = @ + 1]
                 /\ IF ~LastToken(r)
                    THEN /\ tokenIdx' = [tokenIdx EXCEPT ![r] = k + 1]
                         /\ UNCHANGED << pc, tasks, tokens, taskIdx, pending, evals >>
                    ELSE LET after == Mark(task, StatusFor(pending[r]), clock)
                         IN  /\ tasks' = [tasks EXCEPT ![r][i] = after]
                             /\ taskIdx' = [taskIdx EXCEPT ![r] = i + 1]
                             /\ tokenIdx' = [tokenIdx EXCEPT ![r] = 0]
                             /\ pending' = [pending EXCEPT ![r] = "none"]
                             /\ pc' = [pc EXCEPT ![r] = "eval"]
                             /\ evals' = evals \cup
                                  { Eval(r, i, task, after, pending[r]) }
                             /\ UNCHANGED tokens
  /\ UNCHANGED << clock, store, now, userIdx, intents, fresh >>

\* Mutant: the list goes back to where it was loaded from, the secondary
\* documents when the primary one yielded no task.
WriteBackToSource(r, ok) ==
  /\ pc[r] = "eval"
  /\ taskIdx[r] > Len(tasks[r])
  /\ IF ~ok
     THEN Abort(r) /\ UNCHANGED << tasksDoc, userTasks, userIdx >>
     ELSE /\ LET u == userIdx[r]
             IN  IF tasksDoc[u].exists /\ tasksDoc[u].hasList /\ tasksDoc[u].list # <<>>
                 THEN /\ tasksDoc' = [tasksDoc EXCEPT ![u] = MergeList(@, tasks[r])]
                      /\ UNCHANGED userTasks
                 ELSE /\ userTasks' = [userTasks EXCEPT ![u] =
                           [i \in 1..Len(tasks[r]) |->
                              [id |-> @[i].id,
                               data |-> [tasks[r][i] EXCEPT !.id = userTasks[u][i].data.id]]]]
                      /\ UNCHANGED tasksDoc
          /\ userIdx' = [userIdx EXCEPT ![r] = @ + 1]
          /\ pc' = [pc EXCEPT ![r] = "user"]
          /\ tasks' = [tasks EXCEPT ![r] = <<>>]
          /\ tokens' = [tokens EXCEPT ![r] = <<>>]
          /\ taskIdx' = [taskIdx EXCEPT ![r] = 0]
          /\ UNCHANGED << tokenIdx, pending >>
  /\ UNCHANGED << clock, devices, now, totalReminders, history, fresh >>

\* await db.collection("tasks").doc(userId).set({ list: tasks }, { merge: true })
\* `ok` is whether the store accepts the write.
WriteBack(r, ok) ==
  /\ pc[r] = "eval"
  /\ taskIdx[r] > Len(tasks[r])
  /\ IF ~ok
     THEN Abort(r) /\ UNCHANGED << tasksDoc, userIdx >>
     ELSE /\ tasksDoc' = [tasksDoc EXCEPT ![userIdx[r]] = MergeList(@, tasks[r])]
          /\ userIdx' = [userIdx EXCEPT ![r] = @ + 1]
          /\ pc' = [pc EXCEPT ![r] = "user"]
          /\ tasks' = [tasks EXCEPT ![r] = <<>>]
          /\ tokens' = [tokens EXCEPT ![r] = <<>>]
          /\ taskIdx' = [taskIdx EXCEPT ![r] = 0]
          /\ UNCHANGED << tokenIdx, pending >>
  /\ UNCHANGED << clock, userTasks, devices, now, totalReminders, history, fresh >>

\* console.log(`Done! Total reminders sent: ${totalReminders}`)
Finish(r) ==
  /\ pc[r] = "user"
  /\ userIdx[r] > NumUsers
  /\ pc' = [pc EXCEPT ![r] = "done"]
  /\ UNCHANGED << clock, store, now, userIdx, tasks, tokens, taskIdx, tokenIdx,
                  pending, totalReminders, history, fresh >>

\* ----------------------------------------------------------- specifications
\* Runs one after the other; the store and the gateway answer every call.
Next ==
  \/ \E r \in Runs, t \in Instants : Sequential(r) /\ StartRun(r, t)
  \/ \E r \in Runs : LoadUser(r, TRUE)
  \/ \E r \in Runs : EvalTask(r)
  \/ \E r \in Runs : Send(r, TRUE)
  \/ \E r \in Runs : WriteBack(r, TRUE)
  \/ \E r \in Runs : Finish(r)

Spec == Init /\ [][Next]_vars

\* Lists of tasks that are all due: every evaluation may dispatch.
PendingLists == { <<PendingTask(1)>>, <<PendingTask(1), PendingTask(2)>> }

InitPending == InitWith(PendingLists)

\* Runs one after the other; the gateway may reject any fcm.send call.
NextGateway ==
  \/ \E r \in Runs, t \in Instants : Sequential(r) /\ StartRun(r, t)
  \/ \E r \in Runs : LoadUser(r, TRUE)
  \/ \E r \in Runs : EvalTask(r)
  \/ \E r \in Runs, accepted \in BOOLEAN : Send(r, accepted)
  \/ \E r \in Runs : WriteBack(r, TRUE)
  \/ \E r \in Runs : Finish(r)

SpecGateway == InitPending /\ [][NextGateway]_vars

\* The client moves the due date of a stored task from D1 to D2, in the place the
\* task list is read from (taken between runs only).
Reschedule(u, i) ==
  /\ \A r \in Runs : pc[r] \in {"idle", "done"}
  /\ i \in 1..Len(loadTasks(u))
  /\ loadTasks(u)[i].dueDate = <<D1>>
  /\ IF tasksDoc[u].exists /\ tasksDoc[u].hasList /\ Len(tasksDoc[u].list) # 0
     THEN /\ tasksDoc' = [tasksDoc EXCEPT ![u].list[i].dueDate = <<D2>>]
          /\ UNCHANGED userTasks
     ELSE /\ userTasks' = [userTasks EXCEPT ![u][i].data.dueDate = <<D2>>]
          /\ UNCHANGED tasksDoc
  /\ UNCHANGED << clock, devices, pc, locals, history, fresh >>

\* Sequential runs, with due dates edited between them.
NextEdit ==
  \/ Next
  \/ \E u \in Users, i \in {1, 2} : Reschedule(u, i)

SpecEdit == InitPending /\ [][NextEdit]_vars

\* Runs that may overlap: a run may start while another is under way.
NextOverlap ==
  \/ \E r \in Runs, t \in Instants : StartRun(r, t)
  \/ \E r \in Runs : LoadUser(r, TRUE)
  \/ \E r \in Runs : EvalTask(r)
  \/ \E r \in Runs : Send(r, TRUE)
  \/ \E r \in Runs : WriteBack(r, TRUE)
  \/ \E r \in Runs : Finish(r)

SpecOverlap == InitPending /\ [][NextOverlap]_vars

\* Sequential runs against a store that may raise on any read or write.
NextStoreFault ==
  \/ \E r \in Runs, t \in Instants : Sequential(r) /\ StartRun(r, t)
  \/ \E r \in Runs, ok \in BOOLEAN : LoadUser(r, ok)
  \/ \E r \in Runs : EvalTask(r)
  \/ \E r \in Runs : Send(r, TRUE)
  \/ \E r \in Runs, ok \in BOOLEAN : WriteBack(r, ok)
  \/ \E r \in Runs : Finish(r)

SpecStoreFault == InitPending /\ [][NextStoreFault]_vars

\* The process dies in the middle of a run: nothing it holds survives.
Crash(r) ==
  /\ pc[r] \notin {"idle", "done"}
  /\ Abort(r)
  /\ UNCHANGED << clock, store, now, userIdx, totalReminders, history, fresh >>

\* Sequential runs that may die at any point (a store call that raises ends the
\* run in the same way, at the point of the call).
NextCrash ==
  \/ \E r \in Runs, t \in Instants : Sequential(r) /\ StartRun(r, t)
  \/ \E r \in Runs : LoadUser(r, TRUE)
  \/ \E r \in Runs : EvalTask(r)
  \/ \E r \in Runs : Send(r, TRUE)
  \/ \E r \in Runs : WriteBack(r, TRUE)
  \/ \E r \in Runs : Finish(r)
  \/ \E r \in Runs : Crash(r)

\* Pending lists, one user holding two distinct tokens.
InitTwoTokens == InitPending /\ \E u \in Users : devices[u] = <<"tA", "tB">>

SpecCrash == InitTwoTokens /\ [][NextCrash]_vars

\* No run has started and nothing has been dispatched.
InitRuns ==
  /\ pc = [r \in Runs |-> "idle"]
  /\ now = [r \in Runs |-> 0]
  /\ userIdx = [r \in Runs |-> 0]
  /\ tasks = [r \in Runs |-> <<>>]
  /\ tokens = [r \in Runs |-> <<>>]
  /\ taskIdx = [r \in Runs |-> 0]
  /\ tokenIdx = [r \in Runs |-> 0]
  /\ pending = [r \in Runs |-> "none"]
  /\ totalReminders = [r \in Runs |-> 0]
  /\ intents = {}
  /\ calls = {}
  /\ evals = {}

\* /tasks/{uid} holding no list array.
DocNoList == [exists |-> TRUE, hasList |-> FALSE, list |-> <<>>, meta |-> <<"m">>]

\* The shapes of the two task locations of one user: the primary document absent,
\* without a list array, with an empty or a one-task list; the secondary
\* collection empty or holding two documents, named 7 and 8, the second of
\* which has an id field of its own (9).
PrimaryShapes == { NoDoc, DocNoList, Doc(<<>>, <<"m">>), Doc(<<PendingTask(1)>>, <<"m">>) }
SecondaryShapes ==
  { <<>>,
    << [id |-> 7, data |-> Task(<<>>, <<D1>>, FALSE, NoReminders)],
       [id |-> 8, data |-> Task(<<9>>, <<D1>>, FALSE, NoReminders)] >> }

InitSources ==
  /\ clock = D1 - 16 * 60
  /\ \E v \in Users, p \in PrimaryShapes, q \in SecondaryShapes, d \in InitDevices :
       /\ tasksDoc = [u \in Users |-> IF u = v THEN p ELSE Doc(<<PendingTask(1)>>, <<"m">>)]
       /\ userTasks = [u \in Users |-> IF u = v THEN q ELSE <<>>]
       /\ devices = [u \in Users |-> IF u = v THEN d ELSE <<"tA">>]
  /\ fresh = { <<u, i>> \in Users \X {1, 2} : i \in Fresh(loadTasks(u)) }
  /\ InitRuns

\* Sequential runs over every shape of the two task locations.
SpecSource == InitSources /\ [][Next]_vars

\* The values reminders['15min'] may hold in a store written by the earlier
\* variants or by a client: absent, true, false, an object without status, an
\* object with a status that is none of the three terminal ones.
LegacyReminders ==
  { NoReminders, Reminders(NoRecord), Reminders(BoolRecord(TRUE)),
    Reminders(BoolRecord(FALSE)), Reminders(Record("none", D1 - 3000)),
    Reminders(Record("pending", D1 - 3000)) }

LegacyLists ==
  { << Task(<<1>>, <<D1>>, FALSE, rem) >> : rem \in LegacyReminders }
  \cup { << Task(<<1>>, <<D1>>, FALSE, Reminders(BoolRecord(TRUE))),
           Task(<<2>>, <<D1>>, FALSE, rem) >> :
         rem \in LegacyReminders \ { Reminders(BoolRecord(TRUE)) } }

InitLegacy == InitWith(LegacyLists)

\* Sequential runs over a store holding values of the older shapes.
SpecLegacy == InitLegacy /\ [][Next]_vars

\* ------------------------------------------------------------------ claims
HasDue(task) == task.dueDate # <<>>
IntentsFor(u, i) == { x \in intents : x.uid = u /\ x.idx = i }
CallsFor(u, i, k) == { c \in calls : c.uid = u /\ c.idx = i /\ c.token = k }
Unchanged15(e) == e.after.reminders.r15 = e.before.reminders.r15
TerminalObject(task) ==
  /\ task.reminders.defined
  /\ task.reminders.r15.kind = "object"
  /\ task.reminders.r15.status \in {"sent", "missed", "skipped-completed"}

\* C1: over sequential runs with a fixed due date and no outside edit, a task
\* gets at most one intent (due soon or missed, never both) for its 15min
\* window; a task whose stored record was unhandled at the start has exactly
\* one once a run has evaluated it, non-completed, with -1440 <= minsLeft <= 15
\* (a task whose stored record was handled from the start gets none).
C1_AtMostOncePerWindow ==
  \A u \in Users, i \in {1, 2} :
    LET n == Cardinality(IntentsFor(u, i))
    IN  /\ n <= 1
        /\ <<u, i>> \notin fresh => n = 0
        /\ \A e \in evals :
             ( /\ e.uid = u /\ e.idx = i /\ <<u, i>> \in fresh
               /\ HasDue(e.before) /\ ~e.before.completed
               /\ MinsLeft(e.before, e.now) >= -StaleCutoff
               /\ MinsLeft(e.before, e.now) <= rt )
             => n = 1

\* C1 witness: a task got its due-soon intent in run 1 and was evaluated again in
\* run 2, at or past its due time, without a second intent.
C1_Witness ==
  \E e1 \in evals, e2 \in evals :
    /\ e1.run = 1 /\ e2.run = 2 /\ e1.uid = e2.uid /\ e1.idx = e2.idx
    /\ e1.intent = "due-soon"
    /\ MinsLeft(e2.before, e2.now) <= 0
    /\ MinsLeft(e2.before, e2.now) >= -StaleCutoff
    /\ e2.intent = "none"
    /\ Cardinality(IntentsFor(e1.uid, e1.idx)) = 1

\* C3: evaluating a task whose 15min record is an object with status sent,
\* missed or skipped-completed yields no intent and leaves the task's reminder
\* data as it was, whatever the current time.
C3_IdempotentOnTerminal ==
  \A e \in evals :
    TerminalObject(e.before) =>
      /\ e.intent = "none"
      /\ e.after.reminders = e.before.reminders
      /\ \A x \in intents : ~(x.run = e.run /\ x.uid = e.uid /\ x.idx = e.idx)

\* C3 witness: a non-completed task whose record a run set to sent was evaluated
\* by the next run at or past its due time, where an unhandled task is notified.
C3_Witness ==
  \E e1 \in evals, e2 \in evals :
    /\ e1.run = 1 /\ e2.run = 2 /\ e1.uid = e2.uid /\ e1.idx = e2.idx
    /\ e1.intent = "due-soon" /\ e2.before = e1.after
    /\ TerminalObject(e2.before) /\ ~e2.before.completed
    /\ MinsLeft(e2.before, e2.now) = 0
    /\ e2.before.reminders.r15.at # e2.now

\* C6: a task that is completed when it is evaluated never causes a dispatch:
\* every intent and every fcm.send call belongs to a non-completed task.
C6_CompletedNeverDispatched ==
  /\ \A x \in intents : ~x.task.completed
  /\ \A c \in calls : \E x \in intents :
       /\ x.run = c.run /\ x.uid = c.uid /\ x.idx = c.idx /\ x.kind = c.kind
       /\ ~x.task.completed
  /\ \A e \in evals : e.before.completed => e.intent = "none"

\* C6 witness: completed tasks with no handled record were evaluated inside the
\* due-soon window and in the missed range.
C6_Witness ==
  /\ \E e \in evals :
       /\ e.before.completed /\ HasDue(e.before) /\ ~Handled(e.before)
       /\ InDueSoonWindow(MinsLeft(e.before, e.now))
  /\ \E e \in evals :
       /\ e.before.completed /\ HasDue(e.before) /\ ~Handled(e.before)
       /\ MinsLeft(e.before, e.now) = -20

\* C7: for a non-completed task with a due date and no handled record,
\* 0 < minsLeft <= 15 gives a due-soon intent and a sent record,
\* -1440 <= minsLeft <= 0 a missed intent and a missed record, and
\* minsLeft > 15 no intent and no record change.
C7_WindowClassification ==
  \A e \in evals :
    (HasDue(e.before) /\ ~e.before.completed /\ ~Handled(e.before)) =>
      LET m == MinsLeft(e.before, e.now)
      IN  /\ (0 < m /\ m <= 15) =>
                /\ e.intent = "due-soon"
                /\ e.after.reminders.r15 = Record("sent", e.after.reminders.r15.at)
          /\ (-1440 <= m /\ m <= 0) =>
                /\ e.intent = "missed"
                /\ e.after.reminders.r15 = Record("missed", e.after.reminders.r15.at)
          /\ m > 15 => (e.intent = "none" /\ Unchanged15(e))

\* C7 witness: a task with no handled record was evaluated at minsLeft = 16
\* without an intent and, in the next run, at minsLeft = 0 with a missed intent.
C7_Witness ==
  \E e \in evals :
    /\ ~Handled(e.before) /\ ~e.before.completed /\ HasDue(e.before)
    /\ MinsLeft(e.before, e.now) = 0 /\ e.intent = "missed"
    /\ \E f \in evals :
         /\ ~Handled(f.before) /\ ~f.before.completed /\ HasDue(f.before)
         /\ MinsLeft(f.before, f.now) = 16 /\ f.intent = "none"

\* C8: a task with no handled record and minsLeft < -1440 gets no intent and no
\* record change, in every run; at minsLeft = -1440 a non-completed one still
\* gets its missed intent.
C8_StaleCutoff ==
  \A e \in evals :
    (HasDue(e.before) /\ ~Handled(e.before)) =>
      /\ MinsLeft(e.before, e.now) < -1440 => (e.intent = "none" /\ Unchanged15(e))
      /\ (MinsLeft(e.before, e.now) = -1440 /\ ~e.before.completed)
           => e.intent = "missed"

\* C8 witness: one non-completed task with no handled record was evaluated in
\* two runs more than 1440 minutes past its due time.
C8_Witness ==
  \E e1 \in evals, e2 \in evals :
       /\ e1.run # e2.run /\ e1.uid = e2.uid /\ e1.idx = e2.idx
       /\ ~e1.before.completed /\ HasDue(e1.before)
       /\ ~Handled(e1.before) /\ ~Handled(e2.before)
       /\ MinsLeft(e1.before, e1.now) < -1440
       /\ MinsLeft(e2.before, e2.now) < -1440
       /\ e1.intent = "none" /\ e2.intent = "none"

\* The users a run goes through the task loop for.
Eligible(u) == Len(loadTasks(u)) > 0 /\ Len(loadTokens(u)) > 0

\* C10: a rejected fcm.send is not raised: for every intent a call is made to
\* every token of the user, the task's record gets the status decided (sent or
\* missed) whatever the gateway answered and is persisted, and a finished run
\* has evaluated every task of every user with tasks and tokens.
C10_DispatchFailureIsolation ==
  /\ \A e \in evals : e.intent # "none" =>
       /\ \A k \in Range(loadTokens(e.uid)) :
            \E c \in calls : /\ c.run = e.run /\ c.uid = e.uid /\ c.idx = e.idx
                             /\ c.token = k /\ c.kind = e.intent
       /\ e.after.reminders.r15.kind = "object"
       /\ e.after.reminders.r15.status = StatusFor(e.intent)
       /\ pc[e.run] = "done" =>
            loadTasks(e.uid)[e.idx].reminders.r15.status = StatusFor(e.intent)
  /\ \A r \in Runs : pc[r] = "done" =>
       \A u \in Users : Eligible(u) =>
         \A i \in 1..Len(loadTasks(u)) :
           \E e \in evals : e.run = r /\ e.uid = u /\ e.idx = i

\* C10 witness: a run has finished in which the gateway rejected the call for
\* every one of a user's two tokens, the task was still marked, and a later
\* task and a later user were evaluated.
C10_Witness ==
  \E e \in evals :
    /\ pc[e.run] = "done" /\ e.intent # "none" /\ e.uid = 1 /\ e.idx = 1
    /\ Len(loadTokens(e.uid)) = 2
    /\ \A c \in calls : (c.run = e.run /\ c.uid = e.uid /\ c.idx = e.idx) => ~c.delivered
    /\ loadTasks(e.uid)[e.idx].reminders.r15.status = StatusFor(e.intent)
    /\ \E f \in evals : f.run = e.run /\ f.uid = 1 /\ f.idx = 2 /\ f.intent # "none"
    /\ \E f \in evals : f.run = e.run /\ f.uid = 2 /\ f.intent # "none"

\* C2 (as claimed): a non-completed task whose record was set to sent for due
\* date D1 (the record predates the window of D2) and whose due date was then
\* moved to D2 gets a new due-soon intent when evaluated with minsLeft to D2 in
\* (0, 15].
C2_RescheduleReset ==
  \A e \in evals :
    ( /\ e.before.dueDate = <<D2>> /\ ~e.before.completed
      /\ TerminalObject(e.before) /\ e.before.reminders.r15.status = "sent"
      /\ differenceInMinutes(D2, e.before.reminders.r15.at) > rt
      /\ InDueSoonWindow(MinsLeft(e.before, e.now)) )
    => e.intent = "due-soon"

\* C4 (as claimed): whatever the overlap of runs, a token gets at most one
\* fcm.send call for a task's 15min window.
C4_NoDoubleSend ==
  \A u \in Users, i \in {1, 2}, k \in {"tA", "tB"} : Cardinality(CallsFor(u, i, k)) <= 1

\* C5 (as claimed): a completed task with a due date, no prior record and
\* minsLeft in the missed range gets no intent and a skipped-completed record,
\* which the store holds once the run has finished.
C5_CompletedResolution ==
  \A e \in evals :
    ( /\ e.before.completed /\ HasDue(e.before)
      /\ e.before.reminders.r15 = NoRecord
      /\ MinsLeft(e.before, e.now) >= -StaleCutoff
      /\ MinsLeft(e.before, e.now) <= rt - 15 )
    => /\ e.intent = "none"
       /\ e.after.reminders.r15.status = "skipped-completed"
       /\ pc[e.run] = "done" =>
            loadTasks(e.uid)[e.idx].reminders.r15.status = "skipped-completed"

\* C9 (as claimed): when a run stops being able to process one user (a store
\* read or write raised for it), every other user with tasks and tokens has
\* had all its tasks evaluated by that run when the run ends.
C9_PerUserIsolation ==
  \A r \in Runs : pc[r] = "done" =>
    \A u \in Users : (u # userIdx[r] /\ Eligible(u)) =>
      \A i \in 1..Len(loadTasks(u)) :
        \E e \in evals : e.run = r /\ e.uid = u /\ e.idx = i

\* The distinct delivery tokens on a user's device documents.
DistinctTokens(u) == { d \in Range(devices[u]) : d # "" }

\* The primary list of a user (empty when the document or the array is absent).
PrimaryList(u) ==
  IF tasksDoc[u].exists /\ tasksDoc[u].hasList THEN tasksDoc[u].list ELSE <<>>

\* C11: whatever run was cut short (crash, raised store call), a task whose
\* persisted 15min record a run set to sent or missed has had an fcm.send call
\* for every delivery token of its user, and some run has evaluated every task
\* of that user's list (the list is written only after the task loop).
C11_WriteAfterSend ==
  \A u \in Users : \A i \in 1..Len(PrimaryList(u)) :
    ( /\ <<u, i>> \in fresh
      /\ PrimaryList(u)[i].reminders.r15.kind = "object"
      /\ PrimaryList(u)[i].reminders.r15.status \in {"sent", "missed"} )
    => /\ \A k \in DistinctTokens(u) : CallsFor(u, i, k) # {}
       /\ \E r \in Runs : \A j \in 1..Len(PrimaryList(u)) :
            \E e \in evals : e.run = r /\ e.uid = u /\ e.idx = j

\* C11 witness: a run died in the dispatch loop of a user with two tokens (one
\* call made, nothing persisted) and the next run persisted the record.
C11_Witness ==
  \E u \in Users :
    /\ Cardinality(DistinctTokens(u)) = 2
    /\ Len(PrimaryList(u)) = 2
    /\ PrimaryList(u)[1].reminders.r15.status \in {"sent", "missed"}
    /\ pc[1] = "done" /\ userIdx[1] = u
    /\ \E c \in calls : c.run = 1 /\ c.uid = u /\ c.idx = 1
    /\ \A e \in evals : e.run # 1
    /\ \E e \in evals : e.run = 2 /\ e.uid = u /\ e.idx = 2

\* C12 (as claimed): over sequential runs, also when a run is cut short between
\* a dispatch and the end of that user's write-back, no token gets a second
\* fcm.send call for the same task.
C12_AtMostOnceAttempt ==
  \A c1 \in calls, c2 \in calls :
    (c1.uid = c2.uid /\ c1.idx = c2.idx /\ c1.token = c2.token) => c1.run = c2.run

\* The fcm.send calls of one run for one task.
CallsOf(r, u, i) == { c \in calls : c.run = r /\ c.uid = u /\ c.idx = i }

\* C13: for every intent the dispatcher is called exactly once per distinct
\* token of the user and for nothing else, and a run's totalReminders equals
\* the number of fcm.send calls it made, accepted or rejected.
C13_FanOutAndCount ==
  /\ \A e \in evals : e.intent # "none" =>
       /\ \A k \in DistinctTokens(e.uid) :
            Cardinality({ c \in CallsOf(e.run, e.uid, e.idx) : c.token = k }) = 1
       /\ \A c \in CallsOf(e.run, e.uid, e.idx) :
            c.token \in DistinctTokens(e.uid) /\ c.kind = e.intent
       /\ Cardinality(CallsOf(e.run, e.uid, e.idx)) = Cardinality(DistinctTokens(e.uid))
  /\ \A r \in Runs : totalReminders[r] = Cardinality({ c \in calls : c.run = r })

\* C13 witness: a finished run dispatched for a user whose three device
\* documents carry one token twice and no token once (one call, rejected), and
\* counted that call and the other user's.
C13_Witness ==
  \E e \in evals :
    /\ pc[e.run] = "done" /\ e.intent # "none"
    /\ devices[e.uid] = <<"tA", "", "tA">>
    /\ Cardinality(CallsOf(e.run, e.uid, e.idx)) = 1
    /\ \A c \in CallsOf(e.run, e.uid, e.idx) : ~c.delivered
    /\ totalReminders[e.run] >= 2

\* A task list without the reminder bookkeeping.
Core(l) ==
  [i \in 1..Len(l) |-> [id |-> l[i].id, text |-> l[i].text,
                        dueDate |-> l[i].dueDate, completed |-> l[i].completed]]

\* Whether the primary document of a user exists and holds a non-empty list array.
PrimaryYields(u) == tasksDoc[u].exists /\ tasksDoc[u].hasList /\ tasksDoc[u].list # <<>>

\* The secondary documents as tasks: a document without an id field gets its name.
SecondaryTasks(u) ==
  [i \in 1..Len(userTasks[u]) |->
     [userTasks[u][i].data EXCEPT
        !.id = IF @ = <<>> THEN <<userTasks[u][i].id>> ELSE @]]

\* C14: the tasks a run works on for a user are the primary list when the
\* primary document exists with a non-empty list array, else the tasks of the
\* secondary collection, each with an id; a user for whom neither yields a task
\* is skipped and the run goes on to its end, and a user with tasks and tokens
\* is evaluated.
C14_SourceFallback ==
  /\ \A r \in Runs : pc[r] \in {"eval", "send"} =>
       LET u == userIdx[r]
       IN  IF PrimaryYields(u)
           THEN Core(tasks[r]) = Core(tasksDoc[u].list)
           ELSE /\ Core(tasks[r]) = Core(SecondaryTasks(u))
                /\ \A i \in 1..Len(tasks[r]) : tasks[r][i].id # <<>>
  /\ \A r \in Runs : pc[r] = "done" =>
       /\ userIdx[r] = NumUsers + 1
       /\ \A u \in Users :
            /\ (~PrimaryYields(u) /\ userTasks[u] = <<>>) =>
                 \A e \in evals : ~(e.run = r /\ e.uid = u)
            /\ ((PrimaryYields(u) \/ userTasks[u] # <<>>) /\ DistinctTokens(u) # {}) =>
                 \E e \in evals : e.run = r /\ e.uid = u

\* C14 witness: a run works on the two secondary tasks (ids 7 and 9) of a user
\* whose primary document exists with an empty list.
C14_Witness ==
  \E r \in Runs :
    /\ pc[r] = "eval" /\ userIdx[r] = 2
    /\ tasksDoc[2].exists /\ tasksDoc[2].hasList /\ tasksDoc[2].list = <<>>
    /\ Len(tasks[r]) = 2 /\ tasks[r][1].id = <<7>> /\ tasks[r][2].id = <<9>>

\* C15: a user whose task list or whose token set is empty gets no dispatch
\* and no store write: no step changes the stored tasks of such a user or adds
\* a call for them, and no call or evaluation of theirs exists.
C15_SkippedUserUntouched ==
  /\ [](\A u \in Users : ~Eligible(u) =>
          /\ \A c \in calls : c.uid # u
          /\ \A e \in evals : e.uid # u)
  /\ [][\A u \in Users : ~Eligible(u) =>
          /\ tasksDoc'[u] = tasksDoc[u]
          /\ userTasks'[u] = userTasks[u]
          /\ { c \in calls' : c.uid = u } = { c \in calls : c.uid = u }]_vars

\* C15 witness: the first run, started inside the window of a task whose owner
\* has no token, is over, the second run is past that user too, and the task
\* still has no record.
C15_Witness ==
  \E u \in Users :
    /\ Len(loadTokens(u)) = 0 /\ Len(loadTasks(u)) > 0
    /\ pc[1] = "done" /\ Decide(loadTasks(u)[1], now[1]) = "due-soon"
    /\ pc[2] = "user" /\ userIdx[2] > u
    /\ ~Handled(loadTasks(u)[1])

\* Whether the run now at user u emitted an intent for the task at i and left
\* it as `t`.
IntentLeft(u, i, t) ==
  \E e \in evals : /\ e.uid = u /\ e.idx = i /\ e.intent # "none"
                   /\ pc[e.run] = "eval" /\ e.after = t

\* Whether `new` is `old` given an empty reminders mapping because it had none,
\* as the run does for a task with a due date that is not completed.
GotEmptyMapping(old, new) ==
  /\ ~old.reminders.defined
  /\ new = [old EXCEPT !.reminders = Reminders(NoRecord)]
  /\ ~NoDueDate(old) /\ ~SkipCompleted(old)

\* The frame of one step on the stored tasks of user u; `lenient` admits the
\* empty mapping on a task without intent.
FrameStep(u, lenient) ==
  LET old == loadTasks(u)
      new == loadTasks(u)'
  IN  /\ Len(new) = Len(old)
      /\ Core(new) = Core(old)
      /\ \A i \in 1..Len(old) :
           \/ new[i] = old[i]
           \/ IntentLeft(u, i, new[i])
           \/ lenient /\ GotEmptyMapping(old[i], new[i])
      /\ tasksDoc[u].exists => tasksDoc'[u].meta = tasksDoc[u].meta

\* C16 as stated: no step of sequential runs adds, removes or reorders stored
\* tasks or changes id, text, dueDate or completed; a stored task changes only
\* when an intent was emitted for it in the run; the other fields of the
\* stored document are kept.
C16_FrameAsStated == [][\A u \in Users : FrameStep(u, FALSE)]_vars

\* C16 amended: as above, except that a task with a due date that is not
\* completed and has no reminders mapping is stored with an empty one also
\* when no intent was emitted for it.
C16_Frame == [][\A u \in Users : FrameStep(u, TRUE)]_vars

\* C16 witness: a finished run stored, under a document whose other field is
\* kept, a task for which it emitted no intent with an empty reminders mapping
\* the task did not have.
C16_Witness ==
  \E e \in evals :
    /\ pc[e.run] = "done" /\ e.intent = "none"
    /\ ~e.before.reminders.defined
    /\ e.after.reminders = Reminders(NoRecord)
    /\ tasksDoc[e.uid].list[e.idx] = e.after
    /\ tasksDoc[e.uid].meta = <<"m">>

\* The status of the stored 15min record of the task at i of user u.
StoredStatus(u, i) == prevStatus(loadTasks(u)[i].reminders.r15)

\* C17 (as claimed): once the store holds a sent or missed record for a task,
\* no later step, the write-back of an overlapping run included, leaves the
\* store with that record unset or with another status.
C17_TerminalMonotonic ==
  [][\A u \in Users : \A i \in 1..Len(loadTasks(u)) :
       StoredStatus(u, i) \in {"sent", "missed"} =>
         /\ i <= Len(loadTasks(u)')
         /\ StoredStatus(u, i)' = StoredStatus(u, i)]_vars

\* Whether run q is the latest run before r to have evaluated tasks of user u.
LatestBefore(q, r, u) ==
  /\ q < r
  /\ \E e \in evals : e.run = q /\ e.uid = u
  /\ \A e \in evals : e.uid = u /\ e.run < r => e.run <= q

\* C18: no step changes the secondary documents; the step that ends a user's
\* task loop leaves the run's list, non-empty, in the primary document; and a
\* run that comes to a user an earlier run has evaluated loads the list of the
\* primary document, each task as the latest such run left it.
C18_WriteBackTarget ==
  [][/\ userTasks' = userTasks
     /\ \A r \in Runs, u \in Users :
          (pc[r] = "eval" /\ userIdx[r] = u /\ pc'[r] = "user") =>
            /\ PrimaryYields(u)'
            /\ tasksDoc'[u].list = tasks[r]
     /\ \A r \in Runs, u \in Users :
          (pc[r] = "user" /\ userIdx[r] = u /\ pc'[r] = "eval") =>
            \A e \in evals : LatestBefore(e.run, r, u) /\ e.uid = u =>
              /\ PrimaryYields(u)
              /\ tasks'[r] = tasksDoc[u].list
              /\ tasks'[r][e.idx] = e.after]_vars

\* C18 witness: the second run has just loaded, from the primary document, the
\* list of a user whose secondary documents are still there without a record;
\* the list carries the sent record of the first run.
C18_Witness ==
  \E u \in Users :
    /\ userTasks[u] # <<>> /\ userTasks[u][1].data.reminders = NoReminders
    /\ pc[2] = "eval" /\ userIdx[2] = u /\ taskIdx[2] = 1
    /\ tasks[2] = tasksDoc[u].list
    /\ tasks[2][1].reminders.r15.status = "sent"
    /\ \E e \in evals : e.run = 1 /\ e.uid = u /\ e.idx = 1 /\ e.after = tasks[2][1]

\* Whether the stored 15min value of a task is absent, false, or an object
\* without one of the three terminal statuses.
NeverHandledShape(task) ==
  \/ ~task.reminders.defined
  \/ task.reminders.r15.kind \in {"undefined", "false"}
  \/ /\ task.reminders.r15.kind = "object"
     /\ task.reminders.r15.status \notin {"sent", "missed", "skipped-completed"}

\* C19: a task whose stored 15min value is the boolean true gets no intent and
\* no change at any minsLeft; a non-completed task whose value is absent, false
\* or an object without a terminal status is treated as never handled: due
\* soon for 0 < minsLeft <= 15, missed for -1440 <= minsLeft <= 0, nothing
\* elsewhere.
C19_LegacyRecord ==
  \A e \in evals :
    /\ (e.before.reminders.defined /\ e.before.reminders.r15.kind = "true") =>
         /\ e.intent = "none"
         /\ e.after = e.before
         /\ \A x \in intents : ~(x.run = e.run /\ x.uid = e.uid /\ x.idx = e.idx)
    /\ (NeverHandledShape(e.before) /\ HasDue(e.before) /\ ~e.before.completed) =>
         LET m == MinsLeft(e.before, e.now)
         IN  e.intent = IF m > 0 /\ m <= rt THEN "due-soon"
                        ELSE IF m >= -StaleCutoff /\ m <= 0 THEN "missed"
                        ELSE "none"

\* C19 witness: in one run at minsLeft 15, the task stored with true got no
\* intent and the task stored with false got the due-soon intent.
C19_Witness ==
  /\ \E e1 \in evals, e2 \in evals :
       /\ e1.run = e2.run /\ e1.uid = e2.uid
       /\ e1.before.reminders.r15 = BoolRecord(TRUE)
       /\ e1.intent = "none" /\ MinsLeft(e1.before, e1.now) = rt
       /\ e2.before.reminders.r15 = BoolRecord(FALSE)
       /\ e2.intent = "due-soon"

====
